---- MODULE Spec2Model ----
(***************************************************************************)
(* Model of the Electrum RPC frontend of electrs (src/src/electrum.rs):     *)
(* the per-client subscription state (Client), the subscription handlers,  *)
(* update_client, the request dispatcher and the UTXO selector.            *)
(***************************************************************************)
EXTENDS Integers, Sequences, FiniteSets, TLC

(* ------------------------------ bounds -------------------------------- *)
NumHashes == 2
MaxHash == 1
MaxTip == 2
MaxBatch == 2
MaxUtxos == 5
MaxValue == 2
MaxTarget == 4
MaxTargets == 2
MaxId == 2
MaxLines == 2
\* usize is modelled UsizeBits wide
UsizeBits == 12

(* ---------------------------- value domains --------------------------- *)
ScriptHashes == 1..NumHashes
\* ScriptHashStatus::statushash() of an empty history is None (JSON null)
NullHash == 0
StatusHashes == NullHash..MaxHash
BlockHashes == 1..MaxTip
\* Client::tip is an Option<BlockHash>; None is written NoTip
NoTip == 0
\* ghost value: "nothing recorded"
NoHash == 0 - 1
FailKinds == {"bad", "daemon"}

VARIABLES
    ready,        \* tracker.status() is Ok
    daemon,       \* how the daemon's RPCs fare: "up", or the kind of their failure
    unspent,      \* tracker.get_unspent of the status of every script-hash
    height,       \* tracker.chain().height()
    overflow_checks, \* the build checks integer overflow (panics) or wraps
    statushash,   \* tracker: the current status hash of every script-hash
    failing,      \* tracker/daemon: "none", or how update_scripthash_status fails
    chainTip,     \* tracker.chain().tip()
    tip,          \* Client::tip
    scripthashes, \* Client::scripthashes : script-hash -> stored status (its hash)
    crashed,      \* a handler panicked
    outstanding,  \* history: script-hashes whose latest (un)subscribe was a successful subscribe
    reported,     \* history: status hash last sent to the client, per script-hash
    subHash,      \* history: hash returned by the subscribe that inserted the entry,
                  \*          NoHash once unsubscribed or once update_client has run
    updateFailed, \* history: some update_client call returned an error
    last          \* history: the last operation, its inputs and its outputs

vars == <<ready, daemon, unspent, height, overflow_checks, statushash, failing, chainTip, tip, scripthashes,
          crashed, outstanding, reported, subHash, updateFailed, last>>

\* the collaborators' state the subscription handlers do not read
env == <<ready, daemon, unspent, height, overflow_checks>>

(* ------------------------------ helpers ------------------------------- *)
Range(seq) == {seq[i] : i \in 1..Len(seq)}

\* HashMap::insert / HashMap::remove on a map written as a function
Insert(m, k, v) == [x \in (DOMAIN m) \cup {k} |-> IF x = k THEN v ELSE m[x]]
Remove(m, k) == [x \in (DOMAIN m) \ {k} |-> m[x]]
EmptyMap == [x \in {} |-> NullHash]

SeqsUpTo(S, n) == UNION {[1..k -> S] : k \in 0..n}

\* all orders in which the members of a finite set can be listed
Orders(S) == {q \in [1..Cardinality(S) -> S] : Range(q) = S}

\* Result<ScriptHashStatus> / Result<statushash>
OkStatus(h) == [ok |-> TRUE, hash |-> h, err |-> "none"]
ErrStatus(kind) == [ok |-> FALSE, hash |-> NullHash, err |-> kind]

(* --------------------------- the tracker ------------------------------ *)
\* Tracker::update_scripthash_status(&mut status, ..) -> Result<bool>:
\* Ok(true) when the status hash changed, Ok(false) when it is the same.
update_scripthash_status(sh, stored) ==
    IF failing[sh] # "none"
    THEN [res |-> "err", hash |-> stored, err |-> failing[sh]]
    ELSE IF statushash[sh] # stored
    THEN [res |-> "changed", hash |-> statushash[sh], err |-> "none"]
    ELSE [res |-> "unchanged", hash |-> stored, err |-> "none"]

\* Rpc::new_status: ScriptHashStatus::new (empty history), one update, `?`
status_of(r) == IF r.res = "err" THEN ErrStatus(r.err) ELSE OkStatus(r.hash)
new_status(sh) == status_of(update_scripthash_status(sh, NullHash))

(* ----------------------- subscription handlers ------------------------ *)
\* a variant that rebuilds every input, subscribed or not
new_scripthashes_all(map, shs) == shs

\* lines 398-402: the inputs not yet in client.scripthashes (repeats kept)
new_scripthashes(map, shs) == SelectSeq(shs, LAMBDA s : s \notin DOMAIN map)

\* lines 404-407: HashMap<ScriptHash, Result<ScriptHashStatus>>, one entry per key
build_results(new) == [s \in Range(new) |-> new_status(s)]

\* lines 409-420: the returned iterator, item by item; `panic` is the
\* expect("missing scripthash status") on a key already taken out of results
RECURSIVE subscribe_iter(_, _, _, _, _)
subscribe_iter(map, results, shs, k, acc) ==
    IF k > Len(shs)
    THEN [scripthashes |-> map, items |-> acc, panic |-> FALSE]
    ELSE LET s == shs[k]
         IN  IF s \in DOMAIN map
             THEN subscribe_iter(map, results, shs, k + 1,
                                 Append(acc, OkStatus(map[s])))
             ELSE IF s \notin DOMAIN results
             THEN [scripthashes |-> map, items |-> acc, panic |-> TRUE]
             ELSE IF results[s].ok
             THEN subscribe_iter(Insert(map, s, results[s].hash), Remove(results, s),
                                 shs, k + 1, Append(acc, OkStatus(results[s].hash)))
             ELSE subscribe_iter(map, Remove(results, s), shs, k + 1,
                                 Append(acc, ErrStatus(results[s].err)))

\* Rpc::scripthashes_subscribe, consumed to the end
\* (`built` records new_scripthashes, the statuses that were built)
collected(r, new) ==
    [scripthashes |-> r.scripthashes, items |-> r.items, panic |-> r.panic,
     built |-> new]
scripthashes_subscribe(map, shs) ==
    collected(subscribe_iter(map, build_results(new_scripthashes(map, shs)), shs, 1, <<>>),
              new_scripthashes(map, shs))

\* Rpc::scripthash_subscribe: the one-element batch, .next().unwrap()
next_unwrap(r) ==
    [scripthashes |-> r.scripthashes, items |-> <<r.items[1]>>, panic |-> FALSE,
     built |-> r.built]
scripthash_subscribe(map, sh) == next_unwrap(scripthashes_subscribe(map, <<sh>>))

\* a variant that reports the removal without removing the key
scripthash_unsubscribe_keep(map, sh) ==
    [scripthashes |-> map, removed |-> sh \in DOMAIN map]

\* a variant that always answers true
scripthash_unsubscribe_true(map, sh) ==
    [scripthashes |-> Remove(map, sh), removed |-> TRUE]

\* Rpc::scripthash_unsubscribe
scripthash_unsubscribe(map, sh) ==
    [scripthashes |-> Remove(map, sh), removed |-> sh \in DOMAIN map]

\* Rpc::headers_subscribe
headers_subscribe(client) ==
    [client |-> [client EXCEPT !.tip = chainTip], header |-> chainTip]

\* a variant that rebuilds the status even when the script-hash is subscribed
query_status_fresh(map, sh) == new_status(sh)

\* the status a scripthash query reads: the stored one, or a fresh build
\* (get_balance, get_history, get_history_filter, listunspent, unspent_exist,
\*  select_unspent all start this way)
query_status(map, sh) ==
    IF sh \in DOMAIN map THEN OkStatus(map[sh]) ELSE new_status(sh)

(* --------------------------- update_client ---------------------------- *)
notification(method, params) == [method |-> method, params |-> params]

\* a variant that notifies every entry, changed or not (Ok(false) not dropped)
update_client_all(client, order, ran) ==
    LET map     == client.scripthashes
        upd     == [s \in DOMAIN map |-> update_scripthash_status(s, map[s])]
        errs    == {s \in DOMAIN map : upd[s].res = "err"}
        notes   == [k \in 1..Len(order) |->
                      notification("blockchain.scripthash.subscribe",
                                   <<order[k], upd[order[k]].hash>>)]
        all     == [s \in DOMAIN map |-> upd[s].hash]
    IN  IF errs # {}
        THEN [ok |-> FALSE, passed |-> SelectSeq(order, LAMBDA s : s \in ran),
              client |-> client, notifications |-> <<>>]
        ELSE IF client.tip # NoTip /\ client.tip # chainTip
        THEN [ok |-> TRUE, passed |-> order, client |-> [tip |-> chainTip, scripthashes |-> all],
              notifications |->
                 Append(notes, notification("blockchain.headers.subscribe",
                                            <<chainTip>>))]
        ELSE [ok |-> TRUE, passed |-> order, client |-> [client EXCEPT !.scripthashes = all],
              notifications |-> notes]

\* a variant that announces a new tip without storing it in client.tip
update_client_keeptip(client, order, ran) ==
    LET map     == client.scripthashes
        upd     == [s \in DOMAIN map |-> update_scripthash_status(s, map[s])]
        errs    == {s \in DOMAIN map : upd[s].res = "err"}
        changed == SelectSeq(order, LAMBDA s : upd[s].res = "changed")
        notes   == [k \in 1..Len(changed) |->
                      notification("blockchain.scripthash.subscribe",
                                   <<changed[k], upd[changed[k]].hash>>)]
        all     == [s \in DOMAIN map |-> upd[s].hash]
    IN  IF errs # {}
        THEN [ok |-> FALSE, passed |-> SelectSeq(order, LAMBDA s : s \in ran),
              client |-> client, notifications |-> <<>>]
        ELSE IF client.tip # NoTip /\ client.tip # chainTip
        THEN [ok |-> TRUE, passed |-> order, client |-> [client EXCEPT !.scripthashes = all],
              notifications |->
                 Append(notes, notification("blockchain.headers.subscribe",
                                            <<chainTip>>))]
        ELSE [ok |-> TRUE, passed |-> order, client |-> [client EXCEPT !.scripthashes = all],
              notifications |-> notes]

\* a variant that drops the failed updates and reports the rest
update_client_lenient(client, order, ran) ==
    LET map     == client.scripthashes
        upd     == [s \in DOMAIN map |-> update_scripthash_status(s, map[s])]
        changed == SelectSeq(order, LAMBDA s : upd[s].res = "changed")
        notes   == [k \in 1..Len(changed) |->
                      notification("blockchain.scripthash.subscribe",
                                   <<changed[k], upd[changed[k]].hash>>)]
        all     == [s \in DOMAIN map |-> upd[s].hash]
    IN  IF client.tip # NoTip /\ client.tip # chainTip
        THEN [ok |-> TRUE, passed |-> order, client |-> [tip |-> chainTip, scripthashes |-> all],
              notifications |->
                 Append(notes, notification("blockchain.headers.subscribe",
                                            <<chainTip>>))]
        ELSE [ok |-> TRUE, passed |-> order, client |-> [client EXCEPT !.scripthashes = all],
              notifications |-> notes]

\* a variant that puts the headers notification in front
update_client_tipfirst(client, order, ran) ==
    LET map     == client.scripthashes
        upd     == [s \in DOMAIN map |-> update_scripthash_status(s, map[s])]
        errs    == {s \in DOMAIN map : upd[s].res = "err"}
        changed == SelectSeq(order, LAMBDA s : upd[s].res = "changed")
        notes   == [k \in 1..Len(changed) |->
                      notification("blockchain.scripthash.subscribe",
                                   <<changed[k], upd[changed[k]].hash>>)]
        all     == [s \in DOMAIN map |-> upd[s].hash]
    IN  IF errs # {}
        THEN [ok |-> FALSE, passed |-> SelectSeq(order, LAMBDA s : s \in ran),
              client |-> client, notifications |-> <<>>]
        ELSE IF client.tip # NoTip /\ client.tip # chainTip
        THEN [ok |-> TRUE, passed |-> order, client |-> [tip |-> chainTip, scripthashes |-> all],
              notifications |->
                 <<notification("blockchain.headers.subscribe", <<chainTip>>)>> \o notes]
        ELSE [ok |-> TRUE, passed |-> order, client |-> [client EXCEPT !.scripthashes = all],
              notifications |-> notes]

\* a variant that stores the chain tip whether or not client.tip is set
update_client_anytip(client, order, ran) ==
    LET map     == client.scripthashes
        upd     == [s \in DOMAIN map |-> update_scripthash_status(s, map[s])]
        errs    == {s \in DOMAIN map : upd[s].res = "err"}
        changed == SelectSeq(order, LAMBDA s : upd[s].res = "changed")
        notes   == [k \in 1..Len(changed) |->
                      notification("blockchain.scripthash.subscribe",
                                   <<changed[k], upd[changed[k]].hash>>)]
        all     == [s \in DOMAIN map |-> upd[s].hash]
    IN  IF errs # {}
        THEN [ok |-> FALSE, passed |-> SelectSeq(order, LAMBDA s : s \in ran),
              client |-> client, notifications |-> <<>>]
        ELSE IF client.tip # chainTip
        THEN [ok |-> TRUE, passed |-> order, client |-> [tip |-> chainTip, scripthashes |-> all],
              notifications |->
                 Append(notes, notification("blockchain.headers.subscribe",
                                            <<chainTip>>))]
        ELSE [ok |-> TRUE, passed |-> order, client |-> [client EXCEPT !.scripthashes = all],
              notifications |-> notes]

\* a variant whose pool never reaches the last entry the iterator yields
update_client_skiplast(client, order, ran) ==
    LET map     == client.scripthashes
        done    == SubSeq(order, 1, Len(order) - 1)
        upd     == [s \in DOMAIN map |-> update_scripthash_status(s, map[s])]
        errs    == {s \in Range(done) : upd[s].res = "err"}
        changed == SelectSeq(done, LAMBDA s : upd[s].res = "changed")
        notes   == [k \in 1..Len(changed) |->
                      notification("blockchain.scripthash.subscribe",
                                   <<changed[k], upd[changed[k]].hash>>)]
        all     == [s \in DOMAIN map |->
                      IF s \in Range(done) THEN upd[s].hash ELSE map[s]]
    IN  IF errs # {}
        THEN [ok |-> FALSE, passed |-> SelectSeq(done, LAMBDA s : s \in ran),
              client |-> client, notifications |-> <<>>]
        ELSE IF client.tip # NoTip /\ client.tip # chainTip
        THEN [ok |-> TRUE, passed |-> done,
              client |-> [tip |-> chainTip, scripthashes |-> all],
              notifications |->
                 Append(notes, notification("blockchain.headers.subscribe",
                                            <<chainTip>>))]
        ELSE [ok |-> TRUE, passed |-> done,
              client |-> [client EXCEPT !.scripthashes = all],
              notifications |-> notes]

\* Rpc::update_client.  `order` is the order in which the parallel iterator
\* over the HashMap yields its entries; `ran` are the entries the pool
\* processed before the first error stopped the collect; `passed` lists the
\* entries handed to tracker.update_scripthash_status, in that order.
update_client(client, order, ran) ==
    LET map     == client.scripthashes
        upd     == [s \in DOMAIN map |-> update_scripthash_status(s, map[s])]
        errs    == {s \in DOMAIN map : upd[s].res = "err"}
        changed == SelectSeq(order, LAMBDA s : upd[s].res = "changed")
        notes   == [k \in 1..Len(changed) |->
                      notification("blockchain.scripthash.subscribe",
                                   <<changed[k], upd[changed[k]].hash>>)]
        all     == [s \in DOMAIN map |-> upd[s].hash]
        part    == [s \in DOMAIN map |->
                      IF s \in ran \ errs THEN upd[s].hash ELSE map[s]]
    IN  IF errs # {}
        THEN [ok |-> FALSE, passed |-> SelectSeq(order, LAMBDA s : s \in ran),
              client |-> [client EXCEPT !.scripthashes = part],
              notifications |-> <<>>]
        ELSE IF client.tip # NoTip /\ client.tip # chainTip
        THEN [ok |-> TRUE, passed |-> order, client |-> [tip |-> chainTip, scripthashes |-> all],
              notifications |->
                 Append(notes, notification("blockchain.headers.subscribe",
                                            <<chainTip>>))]
        ELSE [ok |-> TRUE, passed |-> order, client |-> [client EXCEPT !.scripthashes = all],
              notifications |-> notes]

(* --------------------------- UTXO selector ---------------------------- *)
\* select_utxos line 817: at most this many entries are taken whole
SmallLen == 3
\* select_utxos line 856: "max inputs length is '20'"
MaxInputs == 20

Min(a, b) == IF a <= b THEN a ELSE b

\* Rust's 0-based utxos[i]
At(utxos, i) == utxos[i + 1]
\* Vec::remove(i), 0-based
RemoveAt(utxos, i) == SubSeq(utxos, 1, i) \o SubSeq(utxos, i + 2, Len(utxos))

\* the least member of a set of indices, or -1 (find() returning None)
FirstOf(c) == IF c = {} THEN 0 - 1 ELSE CHOOSE i \in c : \A j \in c : i <= j

\* lines 825-828: the first 0-based index whose value reaches the target
first_reaching(utxos, target_value) ==
    FirstOf({i \in 0..(Len(utxos) - 1) : At(utxos, i).value >= target_value})

\* lines 838-841: the first confirmed entry after `index` (absolute index)
first_confirmed_after(utxos, index) ==
    FirstOf({i \in (index + 1)..(Len(utxos) - 1) : At(utxos, i).height > 0})

\* lines 855-865: `for i in 0..=max_len`, taking utxos[utxo_len - 1 - i];
\* the index underflows (a panic in debug and in release builds) once i = utxo_len
RECURSIVE greedy(_, _, _, _, _, _)
greedy(utxos, target_value, i, total_amount, choose_list, choose_index) ==
    LET utxo_len == Len(utxos)
        max_len  == Min(utxo_len, MaxInputs)
    IN  IF i > max_len
        THEN [list |-> choose_list, index |-> choose_index, panic |-> FALSE]
        ELSE IF utxo_len - 1 - i < 0
        THEN [list |-> choose_list, index |-> choose_index, panic |-> TRUE]
        ELSE LET u     == At(utxos, utxo_len - 1 - i)
                 total == total_amount + u.value
             IN  IF total > target_value
                 THEN [list |-> Append(choose_list, u),
                       index |-> Append(choose_index, utxo_len - 1 - i),
                       panic |-> FALSE]
                 ELSE greedy(utxos, target_value, i + 1, total,
                             Append(choose_list, u),
                             Append(choose_index, utxo_len - 1 - i))

\* lines 867-870: a choice shorter than SmallLen is padded with utxos[0]
pad_small(utxos, g) ==
    IF ~g.panic /\ Len(g.list) < SmallLen
    THEN [list |-> Append(g.list, At(utxos, 0)), index |-> Append(g.index, 0),
          panic |-> FALSE]
    ELSE g

\* fn select_utxos(utxos, target_value) -> (choose_list, choose_index)
select_utxos(utxos, target_value) ==
    LET utxo_len == Len(utxos)
    IN  IF utxo_len <= SmallLen
        THEN [list |-> utxos, index |-> [k \in 1..utxo_len |-> k - 1], panic |-> FALSE]
        ELSE LET index == first_reaching(utxos, target_value)
             IN  IF index # 0 - 1
                 THEN LET new == first_confirmed_after(utxos, index)
                          select_index ==
                              IF index = 0 THEN <<0, 1, 2>>
                              ELSE IF index = utxo_len - 1
                              THEN <<0, utxo_len - 2, utxo_len - 1>>
                              ELSE IF new # 0 - 1 THEN <<0, index, new>>
                              ELSE <<0, index, utxo_len - 1>>
                      IN  [list |-> [k \in 1..3 |-> At(utxos, select_index[k])],
                           index |-> select_index, panic |-> FALSE]
                 ELSE pad_small(utxos, greedy(utxos, target_value, 0, 0, <<>>, <<>>))

\* Vec::sort_by on value: a stable sort
insert_sorted(sorted, x, k) ==
    SubSeq(sorted, 1, k) \o <<x>> \o SubSeq(sorted, k + 1, Len(sorted))
insert_by_value(sorted, x) ==
    insert_sorted(sorted, x,
                  Cardinality({i \in 1..Len(sorted) : sorted[i].value <= x.value}))
RECURSIVE sort_by_value(_)
sort_by_value(entries) ==
    IF Len(entries) <= 1 THEN entries
    ELSE insert_by_value(sort_by_value(SubSeq(entries, 1, Len(entries) - 1)),
                         entries[Len(entries)])

\* a variant whose filter forgets the confirmation flag
retain_min_amount(entries, min_amount, confirmed) ==
    SelectSeq(entries, LAMBDA u : u.value >= min_amount)

\* lines 331-338: retain on min_amount and, when asked, on confirmation
retain_unspent(entries, min_amount, confirmed) ==
    SelectSeq(entries, LAMBDA u : u.value >= min_amount /\ (confirmed => u.height > 0))

\* lines 344-346: unspent_entries.remove(selcet_index - iter_index); the usize
\* subtraction underflows, or Vec::remove is out of range: a panic either way
RECURSIVE remove_chosen(_, _, _)
remove_chosen(entries, part_index, iter_index) ==
    IF iter_index >= Len(part_index)
    THEN [entries |-> entries, panic |-> FALSE]
    ELSE LET pos == part_index[iter_index + 1] - iter_index
         IN  IF pos < 0 \/ pos >= Len(entries)
             THEN [entries |-> entries, panic |-> TRUE]
             ELSE remove_chosen(RemoveAt(entries, pos), part_index, iter_index + 1)

\* lines 341-348: one select_utxos and one removal round per target amount;
\* `steps` records, per target, the list before, the choice and the list after
RECURSIVE select_loop(_, _, _, _, _)
RECURSIVE select_remove(_, _, _, _, _, _)
RECURSIVE select_extend(_, _, _, _, _, _, _)
select_loop(entries, amounts, k, choose_list, steps) ==
    IF k > Len(amounts)
    THEN [list |-> choose_list, steps |-> steps, panic |-> FALSE]
    ELSE select_remove(entries, amounts, k, choose_list, steps,
                       select_utxos(entries, amounts[k]))
\* lines 343-346: s is (part_list, part_index)
select_remove(entries, amounts, k, choose_list, steps, s) ==
    IF s.panic
    THEN [list |-> choose_list, steps |-> steps, panic |-> TRUE]
    ELSE select_extend(entries, amounts, k, choose_list, steps, s,
                       remove_chosen(entries, s.index, 0))
\* line 347: choose_list.extend(part_list); r is unspent_entries after the removals
select_extend(entries, amounts, k, choose_list, steps, s, r) ==
    IF r.panic
    THEN [list |-> choose_list, steps |-> steps, panic |-> TRUE]
    ELSE select_loop(r.entries, amounts, k + 1, choose_list \o s.list,
                     Append(steps, [before |-> entries, index |-> s.index,
                                    chosen |-> s.list, after |-> r.entries]))

\* Rpc::scripthash_select_unspent
selected(sorted, r) ==
    [ok |-> ~r.panic, err |-> "none", panic |-> r.panic, list |-> r.list,
     steps |-> r.steps, sorted |-> sorted]
select_sorted(status, sorted, amounts) ==
    IF ~status.ok
    THEN [ok |-> FALSE, err |-> status.err, panic |-> FALSE, list |-> <<>>,
          steps |-> <<>>, sorted |-> <<>>]
    ELSE selected(sorted, select_loop(sorted, amounts, 1, <<>>, <<>>))
scripthash_select_unspent(map, sh, amounts, min_amount, confirmed) ==
    select_sorted(query_status(map, sh),
                  sort_by_value(retain_unspent(unspent[sh], min_amount, confirmed)),
                  amounts)

(* ---------------------------- wire values ---------------------------- *)
\* a request id; Value::Null is written NullId
NullId == 0
Ids == 1..MaxId

\* RpcError::to_value, the "code" member
ParseErrorCode == -32700
InvalidRequestCode == -32600
MethodNotFoundCode == -32601
InvalidParamsCode == -32602
UnavailableIndexCode == -32603
BadRequestCode == 1
DaemonErrorCode == 2

to_value(error) ==
    CASE error = "ParseError"       -> ParseErrorCode
      [] error = "InvalidRequest"   -> InvalidRequestCode
      [] error = "MethodNotFound"   -> MethodNotFoundCode
      [] error = "InvalidParams"    -> InvalidParamsCode
      [] error = "BadRequest"       -> BadRequestCode
      [] error = "DaemonError"      -> DaemonErrorCode
      [] error = "UnavailableIndex" -> UnavailableIndexCode

\* a JSON result is written <<kind, n>>
NoValue == <<"none", 0>>
result_msg(id, value) == [id |-> id, error |-> "none", code |-> 0, result |-> value]
error_msg(id, error) ==
    [id |-> id, error |-> error, code |-> to_value(error), result |-> NoValue]
error_msg_no_id(error) == error_msg(NullId, error)

\* Result<Value> of a handler
Ok(v) == [ok |-> TRUE, val |-> v, err |-> "none"]
Err(kind) == [ok |-> FALSE, val |-> NoValue, err |-> kind]

(* --------------------------- method catalog --------------------------- *)
\* Params::parse: the variants that take no parameters (params is not read)
NoParamMethods ==
    {"blockchain.headers.subscribe", "blockchain.relayfee", "mempool.get_fee_histogram",
     "server.banner", "server.donation_address", "server.features",
     "server.peers.subscribe", "server.ping"}
\* the variants whose first parameter is a script-hash
ScriptHashMethods ==
    {"blockchain.scripthash.get_balance", "blockchain.scripthash.get_history",
     "blockchain.scripthash.get_history_filter", "blockchain.scripthash.listunspent",
     "blockchain.scripthash.unspent_exist", "blockchain.scripthash.select_unspent",
     "blockchain.scripthash.subscribe", "blockchain.scripthash.unsubscribe"}
\* the other variants that decode params
ArgMethods ==
    {"blockchain.block.header", "blockchain.block.headers", "blockchain.estimatefee",
     "blockchain.transaction.broadcast", "blockchain.transaction.get",
     "blockchain.transaction.get_merkle", "blockchain.transaction.id_from_pos",
     "server.version"}
Methods == NoParamMethods \cup ScriptHashMethods \cup ArgMethods

\* The JSON params of a request, as far as the handlers tell them apart:
\* whether convert() decodes them for the method, the script-hash, whether the
\* other arguments name something that exists (a height below the tip, a
\* transaction that decodes, a txid of the block, protocol "1.4"), and the
\* select_unspent arguments.
\* const PROTOCOL_VERSION
PROTOCOL_VERSION == "1.4"
\* enum Version: Single(String) or Range(String, String)
VersionSingle(v) == [kind |-> "single", v |-> v]
VersionRange(min, max) == [kind |-> "range", min |-> min, max |-> max]
\* the params of a method other than server.version carry no Version
NoVersion == [kind |-> "none"]

MkParams(decodes, sh, good, amounts) ==
    [decodes |-> decodes, sh |-> sh, good |-> good, amounts |-> amounts,
     min_amount |-> 0, confirmed |-> FALSE, version |-> NoVersion,
     start |-> 0, count |-> 0]
\* Params::BlockHeaders((start_height, count))
BlockHeadersParams(start_height, count) ==
    [MkParams(TRUE, 0, TRUE, <<>>) EXCEPT !.start = start_height, !.count = count]
\* Params::Version((client_id, client_version))
VersionParams(client_version) ==
    [MkParams(TRUE, 0, TRUE, <<>>) EXCEPT !.version = client_version]
NoParams == MkParams(TRUE, 0, TRUE, <<>>)
BadParams == MkParams(FALSE, 0, TRUE, <<>>)

\* Params::parse(method, params) -> Result<Params, StandardError>
params_parse(method, params) ==
    IF method \notin Methods THEN "MethodNotFound"
    ELSE IF method \in NoParamMethods THEN "ok"
    ELSE IF params.decodes THEN "ok"
    ELSE "InvalidParams"

\* Call::parse(request) -> Result<Call, Value>
parsed_call(request, p) ==
    IF p = "ok"
    THEN [ok |-> TRUE, call |-> request]
    ELSE [ok |-> FALSE, response |-> error_msg(request.id, p)]
call_parse(request) == parsed_call(request, params_parse(request.method, request.params))

\* a variant that reports every handler error as a bad request
call_response_bad(call, result) ==
    IF result.ok THEN result_msg(call.id, result.val)
    ELSE error_msg(call.id, "BadRequest")

\* Call::response(result)
call_response(call, result) ==
    IF result.ok THEN result_msg(call.id, result.val)
    ELSE IF result.err = "daemon" THEN error_msg(call.id, "DaemonError")
    ELSE error_msg(call.id, "BadRequest")

\* A line of input: text that is no JSON, a JSON value that is no request
\* (written "scalar"), a request object, or an array of JSON values.
\* parse_requests(line) -> Result<Requests, StandardError>
parse_requests(line) ==
    CASE line.t = "garbage" -> [ok |-> FALSE, err |-> "ParseError"]
      [] line.t = "scalar"  -> [ok |-> FALSE, err |-> "InvalidRequest"]
      [] line.t = "object"  -> [ok |-> TRUE, batch |-> FALSE, requests |-> <<line.req>>]
      [] line.t = "array"   ->
            IF \A k \in 1..Len(line.items) : line.items[k].t = "object"
            THEN [ok |-> TRUE, batch |-> TRUE,
                  requests |-> [k \in 1..Len(line.items) |-> line.items[k].req]]
            ELSE [ok |-> FALSE, err |-> "InvalidRequest"]

\* Calls::parse(requests): Call::parse on the request, or on each of the batch
calls_parse(requests) == [k \in 1..Len(requests) |-> call_parse(requests[k])]

(* ------------------------------ handlers ------------------------------ *)
\* a handler that asks the daemon: its `?` on the daemon's answer
daemon_call(value) == IF daemon = "up" THEN Ok(value) ELSE Err(daemon)

\* a scripthash query: read the stored status, or build one (`?`), then answer
answer_of(status, kind) ==
    IF status.ok THEN Ok(<<kind, status.hash>>) ELSE Err(status.err)
scripthash_query(client, sh, kind) ==
    answer_of(query_status(client.scripthashes, sh), kind)

\* Rpc::block_headers line 218
max_count == 2016
\* usize::MAX at the modelled width
UsizeMax == 2 ^ UsizeBits - 1
\* usize `a + b`: a panic when the build checks overflow, wrapping otherwise
usize_add(a, b) ==
    IF a + b > UsizeMax
    THEN [panic |-> overflow_checks, val |-> (a + b) % (UsizeMax + 1)]
    ELSE [panic |-> FALSE, val |-> a + b]
\* chain.get_block_header(h) is Some for the heights of the chain
has_block_header(h) == h \in 0..height
\* lines 220-229: end_height, heights.len() and the headers concatenated
headers_upto(start_height, sum) ==
    LET end_height == Min(height + 1, sum.val)
        heights    == start_height..(end_height - 1)
    IN  [panic |-> sum.panic,
         count |-> IF sum.panic THEN 0 ELSE Cardinality(heights),
         hex   |-> IF sum.panic THEN 0
                   ELSE Cardinality({h \in heights : has_block_header(h)}),
         max   |-> max_count]
\* Rpc::block_headers; `hex` is the number of headers in the hex string
block_headers(start_height, count) ==
    headers_upto(start_height, usize_add(start_height, Min(count, max_count)))

\* the json!(..) of what the state-changing handlers and the selector return
block_headers_answer(client, r) ==
    [client |-> client, result |-> Ok(<<"headers", r.count>>), panic |-> r.panic]
headers_answer(r) ==
    [client |-> r.client, result |-> Ok(<<"header", r.header>>), panic |-> FALSE]
select_answer(client, r) ==
    [client |-> client,
     result |-> IF r.ok THEN Ok(<<"utxos", Len(r.list)>>) ELSE Err(r.err),
     panic |-> r.panic]
subscribe_answer(client, r) ==
    [client |-> [client EXCEPT !.scripthashes = r.scripthashes],
     result |-> answer_of(r.items[1], "statushash"),
     panic |-> FALSE]
unsubscribe_answer(client, r) ==
    [client |-> [client EXCEPT !.scripthashes = r.scripthashes],
     result |-> Ok(<<"bool", IF r.removed THEN 1 ELSE 0>>),
     panic |-> FALSE]

\* Rpc::version: only Version::Single(PROTOCOL_VERSION) is matched, bail! otherwise
version(client_version) ==
    IF client_version.kind = "single" /\ client_version.v = PROTOCOL_VERSION
    THEN Ok(<<"version", 0>>)
    ELSE Err("bad")

\* the `match &call.params` of single_call (lines 619-644): the handler of
\* every variant, with the client it leaves
handler(client, call) ==
    LET m == call.method
        a == call.params
        same(result) == [client |-> client, result |-> result, panic |-> FALSE]
    IN  CASE m = "server.banner" -> same(Ok(<<"banner", 0>>))
          [] m = "blockchain.block.header" ->
                same(IF a.good THEN Ok(<<"header", 0>>) ELSE Err("bad"))
          [] m = "blockchain.block.headers" ->
                block_headers_answer(client, block_headers(a.start, a.count))
          [] m = "server.donation_address" -> same(Ok(<<"null", 0>>))
          [] m = "blockchain.estimatefee" -> same(daemon_call(<<"fee", 0>>))
          [] m = "server.features" -> same(Ok(<<"features", 0>>))
          [] m = "blockchain.headers.subscribe" ->
                headers_answer(headers_subscribe(client))
          [] m = "mempool.get_fee_histogram" -> same(Ok(<<"histogram", 0>>))
          [] m = "server.peers.subscribe" -> same(Ok(<<"array", 0>>))
          [] m = "server.ping" -> same(Ok(<<"null", 0>>))
          [] m = "blockchain.relayfee" -> same(daemon_call(<<"fee", 0>>))
          [] m = "blockchain.scripthash.get_balance" ->
                same(scripthash_query(client, a.sh, "balance"))
          [] m = "blockchain.scripthash.get_history" ->
                same(scripthash_query(client, a.sh, "history"))
          [] m = "blockchain.scripthash.get_history_filter" ->
                same(scripthash_query(client, a.sh, "history"))
          [] m = "blockchain.scripthash.listunspent" ->
                same(scripthash_query(client, a.sh, "unspent"))
          [] m = "blockchain.scripthash.select_unspent" ->
                select_answer(client,
                              scripthash_select_unspent(client.scripthashes, a.sh,
                                                        a.amounts, a.min_amount,
                                                        a.confirmed))
          [] m = "blockchain.scripthash.unspent_exist" ->
                same(scripthash_query(client, a.sh, "bool"))
          [] m = "blockchain.scripthash.subscribe" ->
                subscribe_answer(client, scripthash_subscribe(client.scripthashes, a.sh))
          [] m = "blockchain.scripthash.unsubscribe" ->
                unsubscribe_answer(client,
                                   scripthash_unsubscribe(client.scripthashes, a.sh))
          [] m = "blockchain.transaction.broadcast" ->
                same(IF a.good THEN daemon_call(<<"txid", 0>>) ELSE Err("bad"))
          [] m = "blockchain.transaction.get" ->
                same(IF a.good THEN Ok(<<"tx", 0>>) ELSE daemon_call(<<"tx", 0>>))
          [] m = "blockchain.transaction.get_merkle" ->
                same(IF a.good THEN daemon_call(<<"merkle", 0>>) ELSE Err("bad"))
          [] m = "blockchain.transaction.id_from_pos" ->
                same(IF a.good THEN daemon_call(<<"txid", 0>>) ELSE Err("bad"))
          [] m = "server.version" ->
                same(version(a.version))

(* ----------------------------- dispatcher ----------------------------- *)
\* lines 611-615: the variants served while tracker.status() is an error
gate_exempt(method) ==
    method \in {"blockchain.block.header", "blockchain.block.headers",
                "blockchain.headers.subscribe", "server.version"}

\* Rpc::single_call(client, call: Result<Call, Value>) -> Value
responded(call, h) ==
    [client |-> h.client, response |-> call_response(call, h.result),
     panic |-> h.panic]
single_call(client, c) ==
    IF ~c.ok THEN [client |-> client, response |-> c.response, panic |-> FALSE]
    ELSE IF ~ready /\ ~gate_exempt(c.call.method)
    THEN [client |-> client, response |-> error_msg(c.call.id, "UnavailableIndex"),
          panic |-> FALSE]
    ELSE responded(c.call, handler(client, c.call))

\* lines 563-566: batch.into_iter().map(single_call).collect()
RECURSIVE one_by_one(_, _, _, _)
RECURSIVE one_by_one_push(_, _, _, _)
one_by_one(client, calls, k, acc) ==
    IF k > Len(calls)
    THEN [client |-> client, responses |-> acc, panic |-> FALSE]
    ELSE one_by_one_push(single_call(client, calls[k]), calls, k, acc)
one_by_one_push(r, calls, k, acc) ==
    IF r.panic
    THEN [client |-> r.client, responses |-> acc, panic |-> TRUE]
    ELSE one_by_one(r.client, calls, k + 1, Append(acc, r.response))

\* Rpc::try_multi_call(client, calls) -> Option<Vec<Value>>
\* lines 593-599: the statuses zipped with the calls
multi_responses(client, calls, r) ==
    [some |-> TRUE,
     client |-> [client EXCEPT !.scripthashes = r.scripthashes],
     responses |->
        [k \in 1..Len(r.items) |->
            call_response(calls[k].call, answer_of(r.items[k], "statushash"))],
     panic |-> r.panic]
try_multi_call(client, calls) ==
    IF \E k \in 1..Len(calls) : ~calls[k].ok
    THEN [some |-> FALSE, client |-> client, responses |-> <<>>, panic |-> FALSE]
    ELSE IF \E k \in 1..Len(calls) :
               calls[k].call.method # "blockchain.scripthash.subscribe"
    THEN [some |-> FALSE, client |-> client, responses |-> <<>>, panic |-> FALSE]
    ELSE multi_responses(client, calls,
                         scripthashes_subscribe(client.scripthashes,
                             [k \in 1..Len(calls) |-> calls[k].call.params.sh]))

\* Rpc::handle_calls(client, calls: Result<Calls, Value>) -> Value; the value
\* is written [batch, responses]: an array of responses, or the one response
array_value(r) ==
    [client |-> r.client, panic |-> r.panic,
     value |-> [batch |-> TRUE, responses |-> r.responses]]
single_value(r) ==
    [client |-> r.client, panic |-> r.panic,
     value |-> [batch |-> FALSE, responses |-> <<r.response>>]]
\* lines 558-566: the Calls::Batch arm
batch_calls(client, calls, multi) ==
    IF multi.some THEN array_value(multi)
    ELSE array_value(one_by_one(client, calls, 1, <<>>))
parsed_calls(client, batch, calls) ==
    IF batch THEN batch_calls(client, calls, try_multi_call(client, calls))
    ELSE single_value(single_call(client, calls[1]))
handle_calls(client, parsed) ==
    IF ~parsed.ok
    THEN [client |-> client, panic |-> FALSE,
          value |-> [batch |-> FALSE, responses |-> <<error_msg_no_id(parsed.err)>>]]
    ELSE parsed_calls(client, parsed.batch, calls_parse(parsed.requests))

\* Rpc::handle_requests(client, lines) -> Vec<String>: one value per line
RECURSIVE handle_requests(_, _, _, _)
RECURSIVE handle_requests_push(_, _, _, _)
handle_requests(client, lines, i, acc) ==
    IF i > Len(lines)
    THEN [client |-> client, out |-> acc, panic |-> FALSE]
    ELSE handle_requests_push(handle_calls(client, parse_requests(lines[i])),
                              lines, i, acc)
handle_requests_push(r, lines, i, acc) ==
    IF r.panic
    THEN [client |-> r.client, out |-> acc, panic |-> TRUE]
    ELSE handle_requests(r.client, lines, i + 1, Append(acc, r.value))

(* ------------------- the subscription state machine ------------------- *)
Client == [tip |-> tip, scripthashes |-> scripthashes]

Init ==
    /\ ready = TRUE
    /\ daemon = "up"
    /\ unspent = [s \in ScriptHashes |-> <<>>]
    /\ height = 0
    /\ overflow_checks = FALSE
    /\ statushash \in [ScriptHashes -> StatusHashes]
    /\ failing = [s \in ScriptHashes |-> "none"]
    /\ chainTip = 1
    /\ tip = NoTip
    /\ scripthashes = EmptyMap
    /\ crashed = FALSE
    /\ outstanding = {}
    /\ reported = [s \in ScriptHashes |-> NoHash]
    /\ subHash = [s \in ScriptHashes |-> NoHash]
    /\ updateFailed = FALSE
    /\ last = [op |-> "init"]

\* positions of shs answered by the iterator
Answered(r) == 1..Len(r.items)
\* the last answered position holding s, or 0
LastPos(r, shs, s) ==
    LET ps == {k \in Answered(r) : shs[k] = s}
    IN  IF ps = {} THEN 0 ELSE CHOOSE k \in ps : \A j \in ps : j <= k

\* effect of a (batched) subscribe on the state and on the history variables
SubscribeEffect(shs, r, opname) ==
    /\ scripthashes' = r.scripthashes
    /\ crashed' = r.panic
    /\ outstanding' =
          {s \in ScriptHashes :
              LET k == LastPos(r, shs, s)
              IN  IF k = 0 THEN s \in outstanding ELSE r.items[k].ok}
    /\ reported' =
          [s \in ScriptHashes |->
              LET k == LastPos(r, shs, s)
              IN  IF ~r.panic /\ k # 0 /\ r.items[k].ok
                  THEN r.items[k].hash ELSE reported[s]]
    /\ subHash' =
          [s \in ScriptHashes |->
              IF s \notin DOMAIN scripthashes /\ s \in DOMAIN r.scripthashes
              THEN r.scripthashes[s] ELSE subHash[s]]
    /\ last' = [op |-> opname, shs |-> shs, items |-> r.items, panic |-> r.panic,
                built |-> r.built, pre |-> scripthashes, preSubHash |-> subHash]
    /\ UNCHANGED <<env, statushash, failing, chainTip, tip, updateFailed>>

Subscribe(sh) ==
    /\ ~crashed
    /\ SubscribeEffect(<<sh>>, scripthash_subscribe(scripthashes, sh), "subscribe")

SubscribeBatch(shs) ==
    /\ ~crashed
    /\ SubscribeEffect(shs, scripthashes_subscribe(scripthashes, shs), "subscribe")

Unsubscribe(sh) ==
    /\ ~crashed
    /\ LET r == scripthash_unsubscribe(scripthashes, sh)
       IN  /\ scripthashes' = r.scripthashes
           /\ last' = [op |-> "unsubscribe", sh |-> sh, removed |-> r.removed,
                       pre |-> scripthashes, preTip |-> tip,
                       wasOutstanding |-> sh \in outstanding]
    /\ outstanding' = outstanding \ {sh}
    /\ subHash' = [subHash EXCEPT ![sh] = NoHash]
    /\ reported' = [reported EXCEPT ![sh] = NoHash]
    /\ UNCHANGED <<env, statushash, failing, chainTip, tip, crashed, updateFailed>>

HeadersSubscribe ==
    /\ ~crashed
    /\ LET r == headers_subscribe(Client)
       IN  /\ tip' = r.client.tip
           /\ scripthashes' = r.client.scripthashes
           /\ last' = [op |-> "headers_subscribe", header |-> r.header]
    /\ UNCHANGED <<env, statushash, failing, chainTip, crashed, outstanding, reported,
                   subHash, updateFailed>>

Query(sh) ==
    /\ ~crashed
    /\ last' = [op |-> "query", sh |-> sh, status |-> query_status(scripthashes, sh)]
    /\ UNCHANGED <<env, statushash, failing, chainTip, tip, scripthashes, crashed,
                   outstanding, reported, subHash, updateFailed>>

UpdateClient ==
    /\ ~crashed
    /\ \E order \in Orders(DOMAIN scripthashes), ran \in SUBSET (DOMAIN scripthashes) :
          LET r == update_client(Client, order, ran)
          IN  /\ (r.ok => ran = DOMAIN scripthashes)
              /\ (r.ok \/ \E s \in ran :
                              update_scripthash_status(s, scripthashes[s]).res = "err")
              /\ tip' = r.client.tip
              /\ scripthashes' = r.client.scripthashes
              /\ updateFailed' = (updateFailed \/ ~r.ok)
              /\ reported' =
                    [s \in ScriptHashes |->
                        IF \E k \in 1..Len(r.notifications) :
                              /\ r.notifications[k].method =
                                    "blockchain.scripthash.subscribe"
                              /\ r.notifications[k].params[1] = s
                        THEN r.client.scripthashes[s] ELSE reported[s]]
              /\ last' = [op |-> "update_client", ok |-> r.ok,
                          notifications |-> r.notifications, passed |-> r.passed,
                          pre |-> scripthashes, preTip |-> tip,
                          preReported |-> reported, preFailed |-> updateFailed]
    /\ subHash' = [s \in ScriptHashes |-> NoHash]
    /\ UNCHANGED <<env, statushash, failing, chainTip, crashed, outstanding>>

\* the index moves on: the history of a script-hash changes
TrackerStatusChange(sh, h) ==
    /\ ~crashed
    /\ statushash[sh] # h
    /\ statushash' = [statushash EXCEPT ![sh] = h]
    /\ last' = [op |-> "tracker"]
    /\ UNCHANGED <<env, failing, chainTip, tip, scripthashes, crashed, outstanding,
                   reported, subHash, updateFailed>>

\* status builds for a script-hash start or stop failing
TrackerFailure(sh, kind) ==
    /\ ~crashed
    /\ failing[sh] # kind
    /\ failing' = [failing EXCEPT ![sh] = kind]
    /\ last' = [op |-> "tracker"]
    /\ UNCHANGED <<env, statushash, chainTip, tip, scripthashes, crashed, outstanding,
                   reported, subHash, updateFailed>>

\* a new block (or a reorganisation) changes the chain tip
ChainTipChange(t) ==
    /\ ~crashed
    /\ chainTip # t
    /\ chainTip' = t
    /\ last' = [op |-> "tracker"]
    /\ UNCHANGED <<env, statushash, failing, tip, scripthashes, crashed, outstanding,
                   reported, subHash, updateFailed>>

Next ==
    \/ \E sh \in ScriptHashes : Subscribe(sh)
    \/ \E shs \in SeqsUpTo(ScriptHashes, MaxBatch) : SubscribeBatch(shs)
    \/ \E sh \in ScriptHashes : Unsubscribe(sh)
    \/ HeadersSubscribe
    \/ \E sh \in ScriptHashes : Query(sh)
    \/ UpdateClient
    \/ \E sh \in ScriptHashes, h \in StatusHashes : TrackerStatusChange(sh, h)
    \/ \E sh \in ScriptHashes, kind \in FailKinds \cup {"none"} : TrackerFailure(sh, kind)
    \/ \E t \in BlockHashes : ChainTipChange(t)

Spec == Init /\ [][Next]_vars
(* -------------------- the selector on its own ------------------------- *)
UnspentEntries == [value : 1..MaxValue, height : 0..1]
\* a tracker's unspent list: entry k is output k of the script-hash
UnspentLists ==
    {[k \in 1..Len(q) |-> [id |-> k, value |-> q[k].value, height |-> q[k].height]] :
        q \in SeqsUpTo(UnspentEntries, MaxUtxos)}
Targets == 1..MaxTarget
MinAmounts == {0, MaxValue}

SelInit ==
    /\ ready = TRUE
    /\ daemon = "up"
    /\ unspent \in {[s \in ScriptHashes |-> u] : u \in UnspentLists}
    /\ height = 0
    /\ overflow_checks = FALSE
    /\ statushash = [s \in ScriptHashes |-> NullHash]
    /\ failing = [s \in ScriptHashes |-> "none"]
    /\ chainTip = 1
    /\ tip = NoTip
    /\ scripthashes = EmptyMap
    /\ crashed = FALSE
    /\ outstanding = {}
    /\ reported = [s \in ScriptHashes |-> NoHash]
    /\ subHash = [s \in ScriptHashes |-> NoHash]
    /\ updateFailed = FALSE
    /\ last = [op |-> "init"]

SelectEffect(sh, amounts, min_amount, confirmed, r) ==
    /\ crashed' = r.panic
    /\ last' = [op |-> "select_unspent", sh |-> sh, amounts |-> amounts,
                min_amount |-> min_amount, confirmed |-> confirmed,
                ok |-> r.ok, list |-> r.list, steps |-> r.steps,
                sorted |-> r.sorted]

SelectUnspent(sh, amounts, min_amount, confirmed) ==
    /\ last.op = "init"
    /\ SelectEffect(sh, amounts, min_amount, confirmed,
                    scripthash_select_unspent(scripthashes, sh, amounts, min_amount,
                                              confirmed))
    /\ UNCHANGED <<env, statushash, failing, chainTip, tip, scripthashes, outstanding,
                   reported, subHash, updateFailed>>

SelNext ==
    \E amounts \in SeqsUpTo(Targets, MaxTargets), min_amount \in MinAmounts,
       confirmed \in BOOLEAN :
        SelectUnspent(1, amounts, min_amount, confirmed)

SelSpec == SelInit /\ [][SelNext]_vars


(* ------------------- the dispatcher on its own ------------------------ *)
\* a method name outside the catalog
UnknownMethod == "x"

\* the select_unspent amounts tried through the dispatcher
DispatchAmounts == {<<1>>, <<MaxTarget>>}

\* protocol version strings a client may name, oldest first
ProtocolStrings == <<"1.2", "1.4", "1.4.2">>
ClientVersions ==
    {VersionSingle(v) : v \in Range(ProtocolStrings)}
       \cup {VersionRange(lo, hi) : lo \in Range(ProtocolStrings), hi \in Range(ProtocolStrings)}
\* the versions tried inside batches
BatchVersions == {VersionSingle(PROTOCOL_VERSION), VersionRange(PROTOCOL_VERSION, PROTOCOL_VERSION)}

\* the params a client may send with a method
ParamsOf(method) ==
    IF method \in NoParamMethods \/ method \notin Methods THEN {NoParams}
    ELSE IF method = "server.version"
    THEN {VersionParams(cv) : cv \in ClientVersions} \cup {BadParams}
    ELSE IF method = "blockchain.block.headers"
    THEN {BlockHeadersParams(0, 1), BlockHeadersParams(UsizeMax, 1), BadParams}
    ELSE IF method = "blockchain.scripthash.select_unspent"
    THEN {MkParams(TRUE, s, TRUE, am) : s \in ScriptHashes, am \in DispatchAmounts}
            \cup {BadParams}
    ELSE IF method \in ScriptHashMethods
    THEN {MkParams(TRUE, s, TRUE, <<>>) : s \in ScriptHashes} \cup {BadParams}
    ELSE {MkParams(TRUE, 0, g, <<>>) : g \in BOOLEAN} \cup {BadParams}

\* requests without their id
Protos(methods) ==
    UNION {{[method |-> m, params |-> a] : a \in ParamsOf(m)} : m \in methods}
WithId(proto, id) == [id |-> id, method |-> proto.method, params |-> proto.params]
Object(proto, id) == [t |-> "object", req |-> WithId(proto, id)]
Scalar == [t |-> "scalar"]
Garbage == [t |-> "garbage"]

\* the methods tried inside batches and in inputs of several lines
BatchMethods ==
    {"blockchain.scripthash.subscribe", "blockchain.scripthash.unsubscribe",
     "blockchain.headers.subscribe", "blockchain.scripthash.get_balance",
     "server.ping", "server.version", UnknownMethod}
ShortMethods ==
    {"blockchain.scripthash.subscribe", "blockchain.scripthash.unsubscribe", "server.ping"}

\* ids are opaque: the ids of a batch up to renaming (the first is 1, each
\* later one repeats an earlier id or is the next unused one)
IdVecs(n) ==
    {v \in [1..n -> Ids] :
        \A k \in 1..n : \A i \in 1..(v[k] - 1) : \E j \in 1..(k - 1) : v[j] = i}

BatchProtos ==
    {q \in Protos(BatchMethods) :
        q.params.version \in BatchVersions \cup {NoVersion}}
SingleLines == {Object(q, 1) : q \in Protos(Methods \cup {UnknownMethod})}
\* an array item: a request, or a JSON value that is no request
BatchItems(n) ==
    LET choices == [kind : {"object"}, proto : BatchProtos]
                      \cup {[kind |-> "scalar"]}
    IN  {[k \in 1..n |->
            IF c[k].kind = "object" THEN Object(c[k].proto, v[k]) ELSE Scalar] :
         c \in [1..n -> choices], v \in IdVecs(n)}
BatchLines == {[t |-> "array", items |-> q] : q \in UNION {BatchItems(n) : n \in 0..MaxBatch}}
ShortLines ==
    {Garbage, Scalar}
       \cup {Object(q, 1) : q \in {x \in Protos(ShortMethods) : x.params.decodes}}
InputLines ==
    {<<l>> : l \in SingleLines \cup BatchLines \cup {Garbage, Scalar}}
       \cup UNION {[1..n -> ShortLines] : n \in {0} \cup 2..MaxLines}

\* stored statuses the client may hold: any subset of the script-hashes, each
\* with any status hash (current or stale)
ClientMaps == UNION {[S -> StatusHashes] : S \in SUBSET ScriptHashes}

\* the unspent lists behind the script-hashes: three entries for the first,
\* four entries of value 1 for the others
FixedUnspent ==
    [s \in ScriptHashes |->
        [k \in 1..(IF s = 1 THEN 3 ELSE 4) |-> [id |-> k, value |-> 1, height |-> 1]]]

DispInit ==
    /\ ready \in BOOLEAN
    /\ daemon \in {"up"} \cup FailKinds
    /\ unspent = FixedUnspent
    /\ height = 1
    /\ overflow_checks \in BOOLEAN
    /\ statushash = [s \in ScriptHashes |-> MaxHash]
    /\ failing \in [ScriptHashes -> {"none"} \cup FailKinds]
    /\ chainTip = 1
    /\ tip = NoTip
    /\ scripthashes \in ClientMaps
    /\ crashed = FALSE
    /\ outstanding = DOMAIN scripthashes
    /\ reported = [s \in ScriptHashes |->
                      IF s \in DOMAIN scripthashes THEN scripthashes[s] ELSE NoHash]
    /\ subHash = [s \in ScriptHashes |-> NoHash]
    /\ updateFailed = FALSE
    /\ last = [op |-> "init"]

HandleEffect(lines, r) ==
    /\ tip' = r.client.tip
    /\ scripthashes' = r.client.scripthashes
    /\ crashed' = r.panic
    /\ last' = [op |-> "handle_requests", lines |-> lines, out |-> r.out,
                pre |-> Client]

HandleRequests(lines) ==
    /\ last.op = "init"
    /\ HandleEffect(lines, handle_requests(Client, lines, 1, <<>>))
    /\ UNCHANGED <<env, statushash, failing, chainTip, outstanding, reported, subHash,
                   updateFailed>>

DispNext == \E lines \in InputLines : HandleRequests(lines)

DispSpec == DispInit /\ [][DispNext]_vars

(* ------------------ blockchain.block.headers on its own --------------- *)
\* chain heights, start heights and counts around 0, max_count and usize::MAX
Heights == {0, 1, max_count - 1, max_count, max_count + 3}
Starts == {0, 1, 2, max_count, max_count + 4, UsizeMax - max_count, UsizeMax - 1, UsizeMax}
Counts == {0, 1, 2, max_count - 1, max_count, max_count + 1, UsizeMax}

HdrInit ==
    /\ ready = TRUE
    /\ daemon = "up"
    /\ unspent = [s \in ScriptHashes |-> <<>>]
    /\ height \in Heights
    /\ overflow_checks \in BOOLEAN
    /\ statushash = [s \in ScriptHashes |-> NullHash]
    /\ failing = [s \in ScriptHashes |-> "none"]
    /\ chainTip = 1
    /\ tip = NoTip
    /\ scripthashes = EmptyMap
    /\ crashed = FALSE
    /\ outstanding = {}
    /\ reported = [s \in ScriptHashes |-> NoHash]
    /\ subHash = [s \in ScriptHashes |-> NoHash]
    /\ updateFailed = FALSE
    /\ last = [op |-> "init"]

BlockHeadersEffect(start_height, count, r) ==
    /\ crashed' = r.panic
    /\ last' = [op |-> "block_headers", start |-> start_height, count |-> count,
                res |-> r]

BlockHeaders(start_height, count) ==
    /\ last.op = "init"
    /\ BlockHeadersEffect(start_height, count, block_headers(start_height, count))
    /\ UNCHANGED <<env, statushash, failing, chainTip, tip, scripthashes, outstanding,
                   reported, subHash, updateFailed>>

HdrNext == \E start_height \in Starts, count \in Counts : BlockHeaders(start_height, count)

HdrSpec == HdrInit /\ [][HdrNext]_vars

(* ============================ the claims ============================= *)

\* the script-hash notifications of a list, as a set of <<script-hash, hash>>
ScripthashNotes(notes) ==
    {notes[k].params : k \in {j \in 1..Len(notes) :
                                 notes[j].method = "blockchain.scripthash.subscribe"}}
HeadersNotes(notes) ==
    {k \in 1..Len(notes) : notes[k].method = "blockchain.headers.subscribe"}

\* the allowlist of the readiness gate, as the specification states it
GateAllowlist ==
    {"blockchain.block.header", "blockchain.block.headers",
     "blockchain.headers.subscribe", "server.version"}

\* the response handle_requests gave to request k of line i, if it gave one
Answer(i, k) ==
    IF i <= Len(last.out) /\ k <= Len(last.out[i].responses)
    THEN last.out[i].responses[k]
    ELSE [id |-> NullId, error |-> "no response", code |-> 0, result |-> NoValue]

\* the requests of line i that reach a handler: the line parses, and so does the call
CallsOf(i) ==
    IF parse_requests(last.lines[i]).ok
    THEN {k \in 1..Len(parse_requests(last.lines[i]).requests) :
             call_parse(parse_requests(last.lines[i]).requests[k]).ok}
    ELSE {}
RequestAt(i, k) == parse_requests(last.lines[i]).requests[k]

\* C1: while the tracker is not ready, every call whose method is outside the
\* allowlist is answered with code -32603 and the request's own id, as a single
\* request and as any item of any batch.
ReadinessGate ==
    (last.op = "handle_requests" /\ ~ready) =>
        \A i \in 1..Len(last.lines) : \A k \in CallsOf(i) :
            RequestAt(i, k).method \notin GateAllowlist =>
                /\ Answer(i, k).code = UnavailableIndexCode
                /\ Answer(i, k).id = RequestAt(i, k).id

\* a line that is a batch made only of blockchain.scripthash.subscribe calls
SubscribeOnly(line) ==
    /\ line.t = "array"
    /\ \A k \in 1..Len(line.items) :
          /\ line.items[k].t = "object"
          /\ line.items[k].req.method = "blockchain.scripthash.subscribe"
          /\ call_parse(line.items[k].req).ok
SameAs(one) ==
    /\ ~crashed
    /\ last.out = <<[batch |-> TRUE, responses |-> one.responses]>>
    /\ scripthashes = one.client.scripthashes

\* C2: a batch made only of subscribe calls gets, through try_multi_call, the
\* response list (in order) and the client.scripthashes that handling the same
\* calls one by one through single_call gives.
MultiCallEquivalence ==
    (last.op = "handle_requests" /\ Len(last.lines) = 1 /\ SubscribeOnly(last.lines[1])) =>
        SameAs(one_by_one(last.pre,
                          calls_parse(parse_requests(last.lines[1]).requests), 1, <<>>))

\* C3: scripthashes_subscribe never aborts and returns one result per input, in
\* input order: an error at every position holding a script-hash whose status
\* build fails, the status hash at every other position.
BatchedSubscribeIsolation ==
    last.op = "subscribe" =>
        /\ ~last.panic
        /\ Len(last.items) = Len(last.shs)
        /\ \A k \in 1..Len(last.shs) :
              IF last.shs[k] \in DOMAIN last.pre
              THEN last.items[k] = OkStatus(last.pre[last.shs[k]])
              ELSE IF failing[last.shs[k]] # "none"
              THEN last.items[k] = ErrStatus(failing[last.shs[k]])
              ELSE last.items[k] = OkStatus(statushash[last.shs[k]])

\* C4: every handler finishes with a success or an error response: no
\* blockchain.scripthash.select_unspent call panics, whatever the unspent
\* list, the amounts, min_amount and confirmed.
HandlersNeverPanic ==
    last.op = "select_unspent" => (~crashed /\ last.ok)

\* C5 (I1): a script-hash is a key of client.scripthashes iff its most recent
\* subscribe/unsubscribe was a subscribe that succeeded.
SubscriptionSetInvariant == DOMAIN scripthashes = outstanding

\* a failed subscribe of one script-hash while another one is subscribed
SubscriptionSetWitness ==
    /\ last.op = "subscribe"
    /\ \E k \in 1..Len(last.items) : ~last.items[k].ok
    /\ outstanding # {}
    /\ updateFailed

UnsubscribeRoundTrip ==
    last.op = "unsubscribe" =>
        /\ last.removed = last.wasOutstanding
        /\ last.sh \notin DOMAIN scripthashes
        /\ DOMAIN scripthashes = (DOMAIN last.pre) \ {last.sh}
        /\ \A s \in DOMAIN scripthashes : scripthashes[s] = last.pre[s]
        /\ tip = last.preTip

\* an unsubscribe that removed an entry, another entry and the tip staying
UnsubscribeRoundTripWitness ==
    /\ last.op = "unsubscribe"
    /\ last.removed
    /\ scripthashes # EmptyMap
    /\ tip # NoTip

\* the entries whose current status hash differs from the value last reported
Unreported(map, rep) == {<<s, statushash[s]>> : s \in {x \in DOMAIN map : statushash[x] # rep[x]}}

StoredChanges(map) ==
    {<<s, statushash[s]>> : s \in {x \in DOMAIN map : statushash[x] # map[x]}}

TipNotification ==
    last.op = "update_client" =>
        Cardinality(HeadersNotes(last.notifications))
            = IF last.preTip # NoTip /\ last.preTip # chainTip THEN 1 ELSE 0

\* C9 amended: an update_client that returns Ok emits exactly one headers
\* notification (carrying the chain tip, stored in client.tip) when client.tip
\* is set and differs from the chain tip, and none otherwise; one that fails
\* emits nothing and leaves client.tip as it was.  After a successful call
\* client.tip is absent or the chain tip, so a second call emits none.
TipNotificationOk ==
    last.op = "update_client" =>
        IF last.ok
        THEN /\ Cardinality(HeadersNotes(last.notifications))
                  = IF last.preTip # NoTip /\ last.preTip # chainTip THEN 1 ELSE 0
             /\ \A k \in HeadersNotes(last.notifications) :
                   /\ last.notifications[k].params = <<chainTip>>
                   /\ k = Len(last.notifications)
             /\ tip = IF last.preTip = NoTip THEN NoTip ELSE chainTip
        ELSE /\ last.notifications = <<>>
             /\ tip = last.preTip

\* a tip change announced together with a script-hash notification
TipNotificationWitness ==
    /\ last.op = "update_client" /\ last.ok
    /\ HeadersNotes(last.notifications) # {}
    /\ ScripthashNotes(last.notifications) # {}

\* C10 (P3): handle_requests returns one output line per input line; the
\* output for a batch of n calls is an array of n responses, the response at
\* index k carrying the id of the request at index k, on the one-by-one path
\* and on the multi-call path.
BatchOrderPreservation ==
    last.op = "handle_requests" =>
        /\ ~crashed
        /\ Len(last.out) = Len(last.lines)
        /\ \A i \in 1..Len(last.lines) :
              (parse_requests(last.lines[i]).ok /\ parse_requests(last.lines[i]).batch) =>
                  /\ last.out[i].batch
                  /\ Len(last.out[i].responses)
                        = Len(parse_requests(last.lines[i]).requests)
                  /\ \A k \in 1..Len(last.out[i].responses) :
                        last.out[i].responses[k].id = RequestAt(i, k).id

\* the place of a protocol string in ProtocolStrings
VersionPos(v) == CHOOSE k \in 1..Len(ProtocolStrings) : ProtocolStrings[k] = v
\* the client's argument is "1.4", or a [min, max] range that contains 1.4
Negotiates(cv) ==
    \/ cv.kind = "single" /\ cv.v = "1.4"
    \/ /\ cv.kind = "range"
       /\ VersionPos(cv.min) <= VersionPos("1.4")
       /\ VersionPos("1.4") <= VersionPos(cv.max)

\* C11: server.version succeeds with [server id, "1.4"] when the protocol
\* argument is "1.4" or a [min, max] range negotiating 1.4, and fails with code 1
\* for every other argument.
ProtocolNegotiation ==
    last.op = "handle_requests" =>
        \A i \in 1..Len(last.lines) : \A k \in CallsOf(i) :
            RequestAt(i, k).method = "server.version" =>
                Answer(i, k) =
                    IF Negotiates(RequestAt(i, k).params.version)
                    THEN result_msg(RequestAt(i, k).id, <<"version", 0>>)
                    ELSE error_msg(RequestAt(i, k).id, "BadRequest")

\* C12: an input line whose JSON value is an empty array is answered with the
\* single error object with id null and code -32600, not with an empty array.
EmptyBatchInvalid ==
    last.op = "handle_requests" =>
        \A i \in 1..Len(last.lines) :
            (last.lines[i].t = "array" /\ last.lines[i].items = <<>>) =>
                /\ i <= Len(last.out)
                /\ last.out[i] = [batch |-> FALSE,
                                  responses |-> <<error_msg_no_id("InvalidRequest")>>]

\* a list without the entries of `chosen` (entries are told apart by their id)
Without(list, chosen) ==
    SelectSeq(list, LAMBDA u : \A k \in 1..Len(chosen) : chosen[k].id # u.id)

\* C13: after each target of select_unspent the working list is the list before
\* that target with exactly the entries chosen for the target removed.
RemovalBetweenTargets ==
    last.op = "select_unspent" =>
        \A k \in 1..Len(last.steps) :
            last.steps[k].after = Without(last.steps[k].before, last.steps[k].chosen)

\* a completed step of the last select_unspent chose its whole working list
StepConsumedAll ==
    \E k \in 1..Len(last.steps) :
        Len(last.steps[k].chosen) >= Len(last.steps[k].before)
\* the working list of the step that was under way when the call stopped
PendingList ==
    IF last.steps = <<>> THEN last.sorted ELSE last.steps[Len(last.steps)].after
PendingChoice == select_utxos(PendingList, last.amounts[Len(last.steps) + 1])
\* that step takes (or runs past) its whole working list
PendingConsumesAll ==
    /\ Len(last.steps) < Len(last.amounts)
    /\ (PendingChoice.panic \/ Len(PendingChoice.list) >= Len(PendingList))

\* C14 (P8): for a non-empty filtered list U and k >= 1 targets, select_unspent
\* returns at least min(3k, |U|) entries, unless some step consumes all of U.
SelectorLowerBound ==
    (/\ last.op = "select_unspent"
     /\ last.sorted # <<>>
     /\ last.amounts # <<>>
     /\ ~StepConsumedAll
     /\ ~PendingConsumesAll) =>
        /\ ~crashed
        /\ Len(last.list) >= Min(3 * Len(last.amounts), Len(last.sorted))

\* C15 (P9): every entry select_unspent returns, for every target and in every
\* branch, has value >= min_amount and, when confirmed is asked, height > 0.
SelectorPostFilter ==
    last.op = "select_unspent" =>
        /\ \A k \in 1..Len(last.list) :
              /\ last.list[k].value >= last.min_amount
              /\ last.confirmed => last.list[k].height > 0
        /\ \A j \in 1..Len(last.steps) : \A k \in 1..Len(last.steps[j].chosen) :
              /\ last.steps[j].chosen[k].value >= last.min_amount
              /\ last.confirmed => last.steps[j].chosen[k].height > 0

\* two targets answered from a list the filter has shortened on both criteria
SelectorPostFilterWitness ==
    /\ last.op = "select_unspent" /\ last.ok
    /\ last.confirmed /\ last.min_amount > 0
    /\ Len(last.amounts) = 2
    /\ Len(last.list) > 0
    /\ \E k \in 1..Len(unspent[last.sh]) :
          unspent[last.sh][k].value >= last.min_amount /\ unspent[last.sh][k].height = 0
    /\ \E k \in 1..Len(unspent[last.sh]) : unspent[last.sh][k].value < last.min_amount

\* the subscribed entries whose status update fails
FailingEntries(map) == {s \in DOMAIN map : failing[s] # "none"}

\* C16: if the status update of any one subscribed entry fails, update_client
\* returns an error and no notification at all, neither for the entries that
\* changed nor for the tip; if none fails it returns Ok.
UpdateFailure ==
    last.op = "update_client" =>
        IF FailingEntries(last.pre) # {}
        THEN ~last.ok /\ last.notifications = <<>>
        ELSE last.ok

\* a failed update_client on a client with a changed entry and a stale tip
UpdateFailureWitness ==
    /\ last.op = "update_client" /\ ~last.ok
    /\ \E s \in DOMAIN last.pre : failing[s] = "none" /\ statushash[s] # last.pre[s]
    /\ last.preTip # NoTip /\ last.preTip # chainTip

\* C17: in the list one update_client call returns, every script-hash
\* notification comes before the headers notification, which, when present, is
\* the last element.
NotificationOrdering ==
    last.op = "update_client" =>
        \A k \in 1..Len(last.notifications) :
            IF last.notifications[k].method = "blockchain.headers.subscribe"
            THEN k = Len(last.notifications)
            ELSE /\ last.notifications[k].method = "blockchain.scripthash.subscribe"
                 /\ \A j \in 1..(k - 1) :
                       last.notifications[j].method = "blockchain.scripthash.subscribe"

\* two script-hash notifications followed by the headers notification
NotificationOrderingWitness ==
    /\ last.op = "update_client"
    /\ Len(last.notifications) = 3
    /\ last.notifications[3].method = "blockchain.headers.subscribe"
    /\ last.notifications[1].params[1] # last.notifications[2].params[1]

\* C18 (I2): client.tip is absent until a headers.subscribe call is handled;
\* every assignment to client.tip (by headers_subscribe, and by an update_client
\* that returns Ok on a client whose tip is set) stores the chain tip of that
\* moment; no other operation changes client.tip, and it never becomes absent.
TipInvariant ==
    [][/\ (tip = NoTip /\ tip' # NoTip) => last'.op = "headers_subscribe"
       /\ tip # NoTip => tip' # NoTip
       /\ last'.op = "headers_subscribe" => tip' = chainTip'
       /\ tip' # tip =>
             /\ tip' = chainTip'
             /\ chainTip' = chainTip
             /\ \/ last'.op = "headers_subscribe"
                \/ last'.op = "update_client" /\ last'.ok /\ tip # NoTip]_vars

\* update_client has moved a set tip to the new chain tip
TipInvariantWitness ==
    /\ last.op = "update_client" /\ last.ok
    /\ last.preTip # NoTip
    /\ tip # last.preTip
    /\ tip = chainTip
    /\ scripthashes # EmptyMap

\* the error codes of a call-level failure
CallFailureCodes ==
    {MethodNotFoundCode, InvalidParamsCode, BadRequestCode, DaemonErrorCode}
\* the items of `seq` at the positions in `keep`, in order
RECURSIVE Pick(_, _, _)
Pick(seq, keep, k) ==
    IF k > Len(seq) THEN <<>>
    ELSE (IF k \in keep THEN <<seq[k]>> ELSE <<>>) \o Pick(seq, keep, k + 1)
\* the positions of the one input line, a batch, whose call did not fail
Succeeded ==
    {k \in 1..Len(last.lines[1].items) : Answer(1, k).code \notin CallFailureCodes}
\* the batch without its failing items
SiblingsOnly ==
    [t |-> "array", items |-> Pick(last.lines[1].items, Succeeded, 1)]
\* the siblings got the responses, and the client the state, of `alone`
AsAlone(alone) ==
    /\ ~alone.panic
    /\ alone.client = Client
    /\ alone.out = <<[batch |-> TRUE,
                      responses |-> Pick(last.out[1].responses, Succeeded, 1)]>>

\* C19: in a batch every item that fails at call level (-32601, -32602, 1, 2)
\* gets an error response with its own id at its own position, and the sibling
\* calls get the responses and leave the client state they would without the
\* failing items; only a line that fails as a whole gets the one id-null error.
CallFailureIsolation ==
    last.op = "handle_requests" =>
        /\ \A i \in 1..Len(last.lines) :
              ~parse_requests(last.lines[i]).ok =>
                  /\ i <= Len(last.out)
                  /\ last.out[i] =
                        [batch |-> FALSE,
                         responses |->
                            <<error_msg_no_id(parse_requests(last.lines[i]).err)>>]
        /\ (/\ Len(last.lines) = 1
            /\ parse_requests(last.lines[1]).ok
            /\ parse_requests(last.lines[1]).batch) =>
              /\ ~crashed
              /\ Len(last.out) = 1
              /\ last.out[1].batch
              /\ Len(last.out[1].responses) = Len(last.lines[1].items)
              /\ \A k \in 1..Len(last.lines[1].items) :
                    /\ Answer(1, k).id = RequestAt(1, k).id
                    /\ ~call_parse(RequestAt(1, k)).ok =>
                          Answer(1, k).code =
                              to_value(params_parse(RequestAt(1, k).method,
                                                    RequestAt(1, k).params))
              /\ AsAlone(handle_requests(last.pre, <<SiblingsOnly>>, 1, <<>>))

\* the sum of the values of the m last entries of U
RECURSIVE TopSum(_, _)
TopSum(U, m) == IF m = 0 THEN 0 ELSE U[Len(U) - m + 1].value + TopSum(U, m - 1)
\* how many entries, from the largest index downward, make the sum exceed t
\* (all of them when the sum never does)
TopCount(U, t) ==
    IF \E m \in 1..Len(U) : TopSum(U, m) > t
    THEN CHOOSE m \in 1..Len(U) :
            TopSum(U, m) > t /\ \A j \in 1..(m - 1) : TopSum(U, j) <= t
    ELSE Len(U)
\* the 0-based indices the selection rule chooses from the ascending list U
RuleIndices(U, t) ==
    LET n     == Len(U)
        reach == {i \in 0..(n - 1) : U[i + 1].value >= t}
        i     == FirstOf(reach)
        conf  == {j \in (i + 1)..(n - 1) : U[j + 1].height > 0}
    IN  IF n <= 3 THEN 0..(n - 1)
        ELSE IF reach # {}
        THEN IF i = 0 THEN {0, 1, 2}
             ELSE IF i = n - 1 THEN {0, n - 2, n - 1}
             ELSE IF conf # {} THEN {0, i, FirstOf(conf)}
             ELSE {0, i, n - 1}
        ELSE ((n - TopCount(U, t))..(n - 1))
                \cup (IF TopCount(U, t) < 3 THEN {0} ELSE {})
\* what select_utxos answers for the first target of the last select_unspent
FirstChoice == select_utxos(last.sorted, last.amounts[1])

\* C20: for every ascending list U and target t the selection chooses the
\* indices of the rule (all of U when |U| <= 3; {0,1,2}, {0,|U|-2,|U|-1},
\* {0,i,j} or {0,i,|U|-1} around the first index i reaching t; otherwise the
\* largest entries until their sum exceeds t, padded with index 0 to three);
\* once a step has consumed all of U, later targets contribute no entries.
SingleTargetRule ==
    (last.op = "select_unspent" /\ last.amounts # <<>>) =>
        /\ ~FirstChoice.panic
        /\ Range(FirstChoice.index) = RuleIndices(last.sorted, last.amounts[1])
        /\ FirstChoice.list =
              [k \in 1..Len(FirstChoice.index) |-> At(last.sorted, FirstChoice.index[k])]
        /\ \A k \in 1..Len(last.steps) :
              /\ Range(last.steps[k].index)
                    = RuleIndices(last.steps[k].before, last.amounts[k])
              /\ \A j \in 1..(k - 1) :
                    Len(last.steps[j].chosen) >= Len(last.steps[j].before) =>
                        last.steps[k].chosen = <<>>

\* no entry (told apart by its id, the (tx_hash, vout) of the output) occurs twice
Distinct(list) ==
    \A j \in 1..Len(list) : \A k \in 1..Len(list) : list[j].id = list[k].id => j = k

\* C21: in the list one select_unspent call returns, over any amounts vector,
\* no unspent entry appears more than once, neither within one target's choice
\* nor across different targets.
NoDoubleSelection ==
    (last.op = "select_unspent" /\ last.ok) =>
        /\ \A k \in 1..Len(last.steps) : Distinct(last.steps[k].chosen)
        /\ Distinct(last.list)

\* C22: for every input handled by handle_requests while the tracker is not
\* ready, client.scripthashes after the call equals client.scripthashes before
\* it, whether the calls arrive singly or in a batch.
NoSubscriptionWhileNotReady ==
    (last.op = "handle_requests" /\ ~ready) => scripthashes = last.pre.scripthashes

\* C23: when update_client returns an error, client.tip is unchanged and every
\* stored status still has the status hash it had before the call, so that a
\* later update_client that returns Ok still notifies every change the client
\* has not been told about.
FailedUpdateKeepsState ==
    last.op = "update_client" =>
        /\ ~last.ok =>
              /\ tip = last.preTip
              /\ scripthashes = last.pre
        /\ (last.ok /\ last.preFailed) =>
              ScripthashNotes(last.notifications)
                  = Unreported(last.pre, last.preReported)

\* how often the last update_client handed entry s to the tracker
TimesPassed(s) == Cardinality({k \in 1..Len(last.passed) : last.passed[k] = s})
\* the entries the tracker reported as changed (Ok(true)) in that call, with
\* their new status hash
ReportedChanged ==
    {<<s, update_scripthash_status(s, last.pre[s]).hash>> :
        s \in {x \in Range(last.passed) :
                  update_scripthash_status(x, last.pre[x]).res = "changed"}}
\* the client before the last update_client
PreClient == [tip |-> last.preTip, scripthashes |-> last.pre]
\* every order of the parallel workers gives the script-hash notifications
\* and the client state the last call gave
AnyOrderSame ==
    \A o \in Orders(DOMAIN last.pre) :
        /\ ScripthashNotes(update_client(PreClient, o, DOMAIN last.pre).notifications)
              = ScripthashNotes(last.notifications)
        /\ update_client(PreClient, o, DOMAIN last.pre).client = Client

\* C24 as stated: in one update_client call every subscribed entry is passed to
\* tracker.update_scripthash_status exactly once, the key set of
\* client.scripthashes is unchanged, and the script-hash notifications returned
\* are exactly one per entry the tracker reported as changed.
ParallelUpdateDeterminism ==
    last.op = "update_client" =>
        /\ \A s \in DOMAIN last.pre : TimesPassed(s) = 1
        /\ DOMAIN scripthashes = DOMAIN last.pre
        /\ ScripthashNotes(last.notifications) = ReportedChanged

\* C24 amended: in an update_client call that returns Ok every subscribed entry
\* is passed to the tracker exactly once and the script-hash notifications are
\* exactly one per entry the tracker reported as changed, whatever the order
\* of the parallel workers; in a call that returns an error every entry is
\* passed at most once and no notification is returned.  The key set of
\* client.scripthashes is unchanged in both cases.
ParallelUpdateDeterminismOk ==
    last.op = "update_client" =>
        /\ DOMAIN scripthashes = DOMAIN last.pre
        /\ Range(last.passed) \subseteq DOMAIN last.pre
        /\ IF last.ok
           THEN /\ \A s \in DOMAIN last.pre : TimesPassed(s) = 1
                /\ ScripthashNotes(last.notifications) = ReportedChanged
                /\ Cardinality(ReportedChanged)
                      = Len(last.notifications)
                           - Cardinality(HeadersNotes(last.notifications))
                /\ AnyOrderSame
           ELSE /\ \A s \in DOMAIN last.pre : TimesPassed(s) <= 1
                /\ last.notifications = <<>>

\* two changed entries, notified in the reverse of their key order
ParallelUpdateDeterminismWitness ==
    /\ last.op = "update_client" /\ last.ok
    /\ Len(last.passed) = 2
    /\ Len(last.notifications) >= 2
    /\ last.notifications[1].method = "blockchain.scripthash.subscribe"
    /\ last.notifications[2].method = "blockchain.scripthash.subscribe"
    /\ last.notifications[1].params[1] > last.notifications[2].params[1]

\* the script-hash queries: they take a script-hash and do not (un)subscribe
QueryMethods ==
    ScriptHashMethods
        \ {"blockchain.scripthash.subscribe", "blockchain.scripthash.unsubscribe"}
\* every call of the input that reaches a handler is a script-hash query
QueriesOnly ==
    \A i \in 1..Len(last.lines) : \A k \in CallsOf(i) :
        RequestAt(i, k).method \in QueryMethods
\* the input is one request, a script-hash query that parses
OneQuery ==
    /\ Len(last.lines) = 1
    /\ last.lines[1].t = "object"
    /\ CallsOf(1) = {1}
    /\ RequestAt(1, 1).method \in QueryMethods
\* the query was answered from a status whose hash is h (select_unspent may
\* panic instead, and its answer does not carry the hash)
AnsweredFrom(h) ==
    IF RequestAt(1, 1).method = "blockchain.scripthash.select_unspent"
    THEN crashed \/ Answer(1, 1).error = "none"
    ELSE /\ ~crashed
         /\ Answer(1, 1).id = RequestAt(1, 1).id
         /\ Answer(1, 1).error = "none"
         /\ Answer(1, 1).result[2] = h

\* C25: get_balance, get_history, get_history_filter, listunspent,
\* unspent_exist and select_unspent read the stored status when the script-hash
\* is subscribed and otherwise build a fresh status; in both cases
\* client.scripthashes and client.tip are unchanged, and a failure of the
\* on-demand build yields an error response with code 1 or 2.
QueriesDoNotSubscribe ==
    last.op = "handle_requests" =>
        /\ QueriesOnly => Client = last.pre
        /\ (ready /\ OneQuery) =>
              IF RequestAt(1, 1).params.sh \in DOMAIN last.pre.scripthashes
              THEN AnsweredFrom(last.pre.scripthashes[RequestAt(1, 1).params.sh])
              ELSE IF failing[RequestAt(1, 1).params.sh] # "none"
              THEN /\ ~crashed
                   /\ Answer(1, 1) =
                         error_msg(RequestAt(1, 1).id,
                                   IF failing[RequestAt(1, 1).params.sh] = "daemon"
                                   THEN "DaemonError" ELSE "BadRequest")
                   /\ Answer(1, 1).code \in {BadRequestCode, DaemonErrorCode}
              ELSE AnsweredFrom(statushash[RequestAt(1, 1).params.sh])

\* a query of a subscribed script-hash answered from its stored, stale status
\* while a fresh build would fail
QueriesDoNotSubscribeWitness ==
    /\ last.op = "handle_requests" /\ ready /\ OneQuery /\ ~crashed
    /\ RequestAt(1, 1).method = "blockchain.scripthash.get_balance"
    /\ RequestAt(1, 1).params.sh \in DOMAIN scripthashes
    /\ scripthashes[RequestAt(1, 1).params.sh] # statushash[RequestAt(1, 1).params.sh]
    /\ failing[RequestAt(1, 1).params.sh] # "none"
    /\ Answer(1, 1).error = "none"

Max(a, b) == IF a >= b THEN a ELSE b
\* the count the specification's formula gives, in unbounded arithmetic
SpecCount(start, count, tip_height) ==
    Max(0, Min(tip_height + 1, start + Min(count, 2016)) - start)

\* C26: for every start, count and chain height, blockchain.block.headers
\* returns max = 2016 and count = max(0, min(tip_height + 1, start +
\* min(count, 2016)) - start), which never exceeds 2016, equals the number of
\* headers concatenated in hex, and is 0 (no error) when start is past the tip.
BlockHeadersBounds ==
    last.op = "block_headers" =>
        /\ ~crashed
        /\ last.res.max = 2016
        /\ last.res.count = SpecCount(last.start, last.count, height)
        /\ last.res.count <= 2016
        /\ last.res.hex = last.res.count
        /\ last.start > height => last.res.count = 0

\* the codes of the errors raised before a handler runs
PreHandlerCodes ==
    {ParseErrorCode, InvalidRequestCode, MethodNotFoundCode, InvalidParamsCode,
     UnavailableIndexCode}
\* request k of line i passed the readiness gate
PassedGate(i, k) == ready \/ RequestAt(i, k).method \in GateAllowlist
\* the input is one request that parses and passes the gate
OneCall ==
    /\ Len(last.lines) = 1
    /\ last.lines[1].t = "object"
    /\ CallsOf(1) = {1}
    /\ PassedGate(1, 1)
\* what the handler of that request returns on the client before the call
HandlerResult == handler(last.pre, RequestAt(1, 1)).result

\* C27: for every call that passes parsing and the readiness gate, a handler
\* success gives a result response; a handler error whose root cause is a
\* daemon RPC error gives code 2; every other handler error gives code 1; all
\* three carry the request's id, and the codes -32700, -32600, -32601, -32602
\* and -32603 are never produced by a handler error.
HandlerErrorClassification ==
    (last.op = "handle_requests" /\ ~crashed) =>
        /\ \A i \in 1..Len(last.lines) : \A k \in CallsOf(i) :
              PassedGate(i, k) =>
                  /\ Answer(i, k).id = RequestAt(i, k).id
                  /\ Answer(i, k).error = "none"
                        \/ Answer(i, k).code \in {BadRequestCode, DaemonErrorCode}
                  /\ Answer(i, k).code \notin PreHandlerCodes
        /\ OneCall =>
              IF HandlerResult.ok
              THEN Answer(1, 1) = result_msg(RequestAt(1, 1).id, HandlerResult.val)
              ELSE /\ Answer(1, 1).id = RequestAt(1, 1).id
                   /\ Answer(1, 1).result = NoValue
                   /\ Answer(1, 1).code =
                         IF HandlerResult.err = "daemon" THEN 2 ELSE 1

\* a daemon RPC error met while building a status, answered with code 2 and
\* the id of the request
HandlerErrorClassificationWitness ==
    /\ last.op = "handle_requests" /\ ~crashed /\ OneCall
    /\ RequestAt(1, 1).method = "blockchain.scripthash.subscribe"
    /\ ~HandlerResult.ok
    /\ Answer(1, 1).code = DaemonErrorCode
    /\ Answer(1, 1).id = RequestAt(1, 1).id
    /\ daemon = "up"
====
